---- MODULE Spec2Model ----
(***************************************************************************)
(* Model of the school-management backend's meeting bot (bot/tasks.py,     *)
(* bot/views.py, bot/utils/token_generate.py) and of the soft-delete,      *)
(* academic-year and announcement viewsets (school/views.py).              *)
(*                                                                         *)
(*   Spec       MeetBot.run: login, join, start_recording, background      *)
(*              threads, MeetingMonitor.monitor, report, MeetBot.stop      *)
(*   LiveSpec   Spec with the fairness of the thread scheduler             *)
(*   ViewSpec   meeting_bot_view                                           *)
(*   SchoolSpec SoftDeleteModelViewSet, AcademicYearViewSet,               *)
(*              AttendanceViewSet.bulk_update                              *)
(*   AnnSpec    AnnouncementViewSet: create, destroy, expired, upcoming    *)
(*   TokenSpec  token_generate.refresh_and_store_tokens                    *)
(***************************************************************************)
EXTENDS Integers, Sequences, FiniteSets, TLC

(* ------------------------------ bounds --------------------------------- *)
MaxDuration == 2        \* MeetBot.duration, minutes
MaxDevices == 2         \* audio devices reported by ffmpeg -list_devices
MaxCheckTime == 20      \* longest check_participants call, seconds
StartTime == 100        \* time.time() when monitor starts, seconds
MaxRequests == 2        \* requests sent to meeting_bot_view
MaxYears == 3           \* AcademicYear rows
MaxAttendance == 1      \* StudentAttendance rows
MaxAnnouncements == 2   \* Announcement rows
MaxTime == 3            \* latest start_date of a posted announcement
MaxClock == 13          \* last day of the announcement clock

(* ------------------------- program constants --------------------------- *)
CheckInterval == 30     \* current_time - last_participant_check > 30
WarmUp == 20            \* elapsed > 20
SleepGap == 10          \* time.sleep(10)
ChecksToStop == 2       \* participants_check_count >= 2
SecondsPerMinute == 60  \* end_time = start_time + duration * 60
OneMinute == 60         \* "No participants for 1 minute"
NoDate == 0             \* end_date = None (null=True)
SeedDays == 10          \* timedelta(days=10) of a seeded announcement

VARIABLES
    \* MeetBot
    pc,                 \* position in MeetBot.run / MeetBot.stop
    log,                \* calls made by run, in order
    duration,           \* MeetBot.duration
    driver,             \* WebDriverManager.driver: "None", "open", "quit"
    loginRet, joinRet, startRet, monitorRet,
    bot,                \* MeetBot attributes that are set (not None)
    stopCalls, quitCalls, propagated,
    \* MeetingRecorder
    ffmpeg_process,     \* the method whose process the recorder holds, or "None"
    procs,              \* state of the ffmpeg process of each recording method
    tried,              \* methods start_recording attempted, in order
    srLog,              \* calls made by the last stop_recording
    \* MeetingMonitor.monitor
    clock,              \* time.time(), seconds
    last_participant_check,
    participants_check_count,
    monitor_should_stop,
    firstNegAt,         \* time of the first of the consecutive negative checks
    lastTwo,            \* results of the two most recent participant checks
    absence,            \* seconds from firstNegAt to the decision to stop
    stopReason,
    \* background threads
    tpc,                \* position of each thread's loop
    transcriber_should_stop, emotion_should_stop,
    \* report
    reportResult, reportFile,
    \* meeting_bot_view
    responses,          \* one record per handled request
    \* school
    years,              \* AcademicYear table
    attendance,         \* StudentAttendance table
    lastOp,             \* the last request handled by the school viewsets
    announcements,      \* Announcement table
    annNow,             \* timezone.now()
    annResult,          \* the last answer of AnnouncementViewSet
    \* token_generate
    token_json,         \* the file token.json
    env_file,           \* the file .env
    environ,            \* os.environ as loaded by load_dotenv
    tokResult           \* outcome of the last refresh_and_store_tokens

botVars == <<pc, log, duration, driver, loginRet, joinRet, startRet, monitorRet,
             bot, stopCalls, quitCalls, propagated>>
recVars == <<ffmpeg_process, procs, tried, srLog>>
monVars == <<clock, last_participant_check, participants_check_count,
             monitor_should_stop, firstNegAt, lastTwo, absence, stopReason>>
thrVars == <<tpc, transcriber_should_stop, emotion_should_stop>>
repVars == <<reportResult, reportFile>>
viewVars == <<responses>>
schoolVars == <<years, attendance, lastOp>>
annVars == <<announcements, annNow, annResult>>
tokVars == <<token_json, env_file, environ, tokResult>>
vars == <<botVars, recVars, monVars, thrVars, repVars, viewVars, schoolVars, annVars, tokVars>>

(* ========================= MeetingRecorder ============================= *)

\* _get_recording_methods: the commands in order of preference
_get_recording_methods(nDevices) ==
    (IF nDevices >= 2 THEN <<"two_audio">> ELSE <<>>)
    \o (IF nDevices >= 1 THEN <<"one_audio">> ELSE <<>>)
    \o <<"video_only">>

Methods == {"two_audio", "one_audio", "video_only"}
Outcomes == {"popen_raises", "exits", "running"}

\* Popen.kill(): a process that has already exited is left alone
kill(state) == IF state = "running" THEN "killed" ELSE state

NoProcs == [m \in Methods |-> "unstarted"]

\* mutant: the attempt counts as a success without the poll() test
AfterAttempt_m(outcome) == "return"

\* what the loop of start_recording does after one attempt
AfterAttempt(outcome) == IF outcome = "running" THEN "return" ELSE "next"

\* the for loop of start_recording over methods[i..], r the state so far
RECURSIVE TryMethods(_, _, _, _)
TryMethods(methods, outcome, i, r) ==
    IF i > Len(methods)
    THEN \* raise "All recording methods failed"; the handler kills the held process
         [r EXCEPT !.ok = FALSE,
                   !.procs = IF r.proc = "None" THEN r.procs
                             ELSE [r.procs EXCEPT ![r.proc] = kill(@)]]
    ELSE LET m == methods[i]
             o == outcome[m]
             t == Append(r.tried, m)
         IN IF o = "popen_raises"
            THEN TryMethods(methods, outcome, i + 1, [r EXCEPT !.tried = t])
            ELSE LET started == [r EXCEPT !.tried = t, !.proc = m,
                                   !.procs = [r.procs EXCEPT ![m] =
                                       IF o = "running" THEN "running" ELSE "exited"]]
                 IN IF AfterAttempt(o) = "return"
                    THEN [started EXCEPT !.ok = TRUE]
                    ELSE TryMethods(methods, outcome, i + 1,
                           [started EXCEPT !.procs = [started.procs EXCEPT ![m] = kill(@)]])

start_recording(nDevices, outcome) ==
    TryMethods(_get_recording_methods(nDevices), outcome, 1,
               [ok |-> FALSE, proc |-> "None", procs |-> NoProcs, tried |-> <<>>])

\* mutant: terminate() sent whether or not the wait timed out
EscalateToTerminate_m(w15) == TRUE

\* terminate() is reached from the wait(timeout=15) handler only
EscalateToTerminate(w15) == w15 = "timeout"
\* mutant: the second timeout is swallowed without kill()
EscalateToKill_m(w5) == FALSE

\* kill() is reached from the wait(timeout=5) handler only
EscalateToKill(w5) == w5 = "timeout"

\* stop_recording on a process in state st.  qOk: the write of 'q' succeeded;
\* w15, w5: outcome of the two waits when the process is still running;
\* fileErr: the output-file check raised
stop_recording(st, qOk, w15, w5, fileErr) ==
    LET q == <<IF qOk THEN "q" ELSE "q_failed">>
        \* wait(timeout=15) returns at once for a process that is not running
        r15 == IF st = "running" THEN w15 ELSE "exit"
        s1 == IF st = "running" /\ r15 = "exit"
              THEN (IF qOk THEN "quit" ELSE "exited") ELSE st
        l1 == q \o <<IF r15 = "exit" THEN "wait15_ok" ELSE "wait15_timeout">>
        r5 == IF s1 = "running" THEN w5 ELSE "exit"
        s2 == IF s1 = "running" /\ r5 = "exit" THEN "terminated" ELSE s1
        l2 == l1 \o <<"terminate", IF r5 = "exit" THEN "wait5_ok" ELSE "wait5_timeout">>
        body == IF ~EscalateToTerminate(r15) THEN [log |-> l1, st |-> s1]
                ELSE IF ~EscalateToKill(r5) THEN [log |-> l2, st |-> s2]
                ELSE [log |-> Append(l2, "kill"), st |-> kill(s2)]
    IN IF fileErr
       THEN \* except Exception: self.ffmpeg_process.kill()
            [log |-> body.log \o <<"exception", "kill_handler">>, st |-> kill(body.st)]
       ELSE body

(* ============================== MeetBot ================================ *)

Threads == {"TranscriptThread", "EmotionThread", "ActiveUserThread"}
StartOrder == <<"TranscriptThread", "EmotionThread", "ActiveUserThread">>

\* the methods class ParticipantAnalyzer defines
ParticipantAnalyzer == {"check_participants", "_check_participant_count_badge",
                        "_check_participant_list", "_check_meeting_status"}

\* mutant: run without the except clause
RunExcept_m(raised) == raised

\* run's "except Exception" clause: does an exception raised in the try block
\* leave run?
RunExcept(raised) == FALSE

\* every exit of the try block goes through "finally: self.stop()"
Raise == /\ pc' = "finally"
         /\ propagated' = RunExcept(TRUE)

\* "if not self.authenticator.login(): raise"
LoginOk(r) == r = "True"
\* mutant: the result of join ignored
Joined_m(r) == TRUE

\* "if joined:"
Joined(r) == r = "True"
\* start_recording returns True or raises
RecordingStarted(r) == r.ok

\* self.recorder.stop_recording() on the recorder's current process
StopRecording ==
    IF ffmpeg_process = "None"
    THEN srLog' = <<>> /\ procs' = procs
    ELSE \E qOk \in BOOLEAN, w15 \in {"exit", "timeout"},
            w5 \in {"exit", "timeout"}, fileErr \in BOOLEAN :
            LET r == stop_recording(procs[ffmpeg_process], qOk, w15, w5, fileErr)
            IN /\ srLog' = r.log
               /\ procs' = [procs EXCEPT ![ffmpeg_process] = r.st]

Initialize ==
    /\ pc = "run"
    /\ log' = Append(log, "initialize")
    /\ \E ok \in BOOLEAN :
         IF ok THEN driver' = "open" /\ pc' = "login" /\ propagated' = propagated
               ELSE driver' = driver /\ Raise
    /\ UNCHANGED <<duration, loginRet, joinRet, startRet, monitorRet, bot,
                   stopCalls, quitCalls>>
    /\ UNCHANGED <<recVars, monVars, thrVars, repVars, viewVars, schoolVars, annVars, tokVars>>

Login ==
    /\ pc = "login"
    /\ log' = Append(log, "login")
    /\ \E r \in {"True", "False", "raise"} :
         /\ loginRet' = r
         /\ IF LoginOk(r) THEN pc' = "join" /\ propagated' = propagated ELSE Raise
    /\ UNCHANGED <<duration, driver, joinRet, startRet, monitorRet, bot,
                   stopCalls, quitCalls>>
    /\ UNCHANGED <<recVars, monVars, thrVars, repVars, viewVars, schoolVars, annVars, tokVars>>

Join ==
    /\ pc = "join"
    /\ log' = Append(log, "join")
    /\ \E r \in {"True", "False"} :
         /\ joinRet' = r
         /\ IF Joined(r)
            THEN /\ bot' = bot \cup {"participant_analyzer", "recorder"}
                 /\ pc' = "start_recording"
            ELSE /\ bot' = bot
                 /\ pc' = "finally"
    /\ UNCHANGED <<duration, driver, loginRet, startRet, monitorRet,
                   stopCalls, quitCalls, propagated>>
    /\ UNCHANGED <<recVars, monVars, thrVars, repVars, viewVars, schoolVars, annVars, tokVars>>

StartRecording ==
    /\ pc = "start_recording"
    /\ log' = Append(log, "start_recording")
    /\ \E n \in 0..MaxDevices, outcome \in [Methods -> Outcomes] :
         LET r == start_recording(n, outcome)
         IN /\ ffmpeg_process' = r.proc
            /\ procs' = r.procs
            /\ tried' = r.tried
            /\ IF RecordingStarted(r)
               THEN startRet' = "True" /\ pc' = "background" /\ propagated' = propagated
               ELSE startRet' = "raise" /\ Raise
    /\ UNCHANGED <<duration, driver, loginRet, joinRet, monitorRet, bot,
                   stopCalls, quitCalls, srLog>>
    /\ UNCHANGED <<monVars, thrVars, repVars, viewVars, schoolVars, annVars, tokVars>>

\* _start_background_services, then the set-up of the monitor; k threads start
\* before Thread.start raises (k = 3: none raises)
StartBackgroundServices ==
    /\ pc = "background"
    /\ \E k \in 0..3 :
         /\ log' = log \o (IF k = 3 THEN <<"background", "monitor">> ELSE <<"background">>)
         /\ tpc' = [t \in Threads |->
                      IF \E i \in 1..k : StartOrder[i] = t THEN "check" ELSE tpc[t]]
         /\ IF k = 3
            THEN /\ bot' = bot \cup {"transcriber", "emotion_analyzer", "transcript_thread",
                                     "emotion_thread", "active_user_thread",
                                     "meeting_start_time", "monitor"}
                 /\ pc' = "monitor"
                 /\ propagated' = propagated
            ELSE /\ bot' = bot \cup {"transcriber", "emotion_analyzer", "transcript_thread",
                                     "emotion_thread", "active_user_thread"}
                 /\ Raise
    /\ UNCHANGED <<duration, driver, loginRet, joinRet, startRet, monitorRet,
                   stopCalls, quitCalls, transcriber_should_stop, emotion_should_stop>>
    /\ UNCHANGED <<recVars, monVars, repVars, viewVars, schoolVars, annVars, tokVars>>

(* ========================== MeetingMonitor ============================= *)

CheckDurations == {0, MaxCheckTime}

\* "if current_time - last_participant_check > 30 and elapsed > 20"
CheckDue(current_time, last, elapsed) ==
    current_time - last > CheckInterval /\ elapsed > WarmUp

\* mutant: a positive check leaves the counter as it is
NextCount_m(count, present) == IF present THEN count ELSE count + 1

\* participants_check_count after a check that returned present
NextCount(count, present) == IF present THEN 0 ELSE count + 1

\* "if participants_check_count >= 2"
NoParticipants(count) == count >= ChecksToStop

\* one iteration of the while loop of monitor, or its exit
MonitorLoop ==
    /\ pc = "monitor"
    /\ LET current_time == clock
           start_time == StartTime
           end_time == StartTime + duration * SecondsPerMinute
           elapsed == current_time - start_time
       IN IF current_time < end_time /\ ~monitor_should_stop
          THEN LET s == SleepGap IN
               IF CheckDue(current_time, last_participant_check, elapsed)
               THEN \E present \in BOOLEAN, d \in CheckDurations :
                    LET count == NextCount(participants_check_count, present)
                        first == IF present THEN 0
                                 ELSE IF participants_check_count = 0 THEN current_time
                                 ELSE firstNegAt
                    IN /\ last_participant_check' = current_time
                       /\ participants_check_count' = count
                       /\ firstNegAt' = first
                       /\ lastTwo' = IF lastTwo = <<>> THEN <<present>>
                                     ELSE <<lastTwo[Len(lastTwo)], present>>
                       /\ IF ~present /\ NoParticipants(count)
                          THEN \* "No participants for 1 minute - ending recording"
                               /\ monitor_should_stop' = TRUE
                               /\ stopReason' = "no_participants"
                               /\ absence' = (clock + d) - first
                               /\ clock' = clock + d
                               /\ pc' = "monitor_end"
                          ELSE /\ clock' = clock + d + s
                               /\ pc' = "monitor"
                               /\ UNCHANGED <<monitor_should_stop, stopReason, absence>>
               ELSE /\ clock' = clock + s
                    /\ pc' = "monitor"
                    /\ UNCHANGED <<last_participant_check, participants_check_count,
                                   firstNegAt, lastTwo, monitor_should_stop,
                                   stopReason, absence>>
          ELSE /\ pc' = "monitor_end"
               /\ stopReason' = "duration"
               /\ UNCHANGED <<clock, last_participant_check, participants_check_count,
                              firstNegAt, lastTwo, monitor_should_stop, absence>>
    /\ UNCHANGED <<log, duration, driver, loginRet, joinRet, startRet, monitorRet,
                   bot, stopCalls, quitCalls, propagated>>
    /\ UNCHANGED <<recVars, thrVars, repVars, viewVars, schoolVars, annVars, tokVars>>

\* after the loop: stop_recording, monitor returns; its locals go out of scope
MonitorEnd ==
    /\ pc = "monitor_end"
    /\ StopRecording
    /\ monitorRet' = "ok"
    /\ pc' = "report"
    /\ clock' = StartTime
    /\ last_participant_check' = 0
    /\ participants_check_count' = 0
    /\ firstNegAt' = 0
    /\ lastTwo' = <<>>
    /\ UNCHANGED <<log, duration, driver, loginRet, joinRet, startRet,
                   bot, stopCalls, quitCalls, propagated>>
    /\ UNCHANGED <<ffmpeg_process, tried, monitor_should_stop, absence, stopReason>>
    /\ UNCHANGED <<thrVars, repVars, viewVars, schoolVars, annVars, tokVars>>

\* an exception inside the loop: the handler stops the recording and re-raises
MonitorRaise ==
    /\ pc = "monitor"
    /\ StopRecording
    /\ monitorRet' = "raise"
    /\ Raise
    /\ clock' = StartTime
    /\ last_participant_check' = 0
    /\ participants_check_count' = 0
    /\ firstNegAt' = 0
    /\ lastTwo' = <<>>
    /\ stopReason' = "exception"
    /\ UNCHANGED <<log, duration, driver, loginRet, joinRet, startRet,
                   bot, stopCalls, quitCalls>>
    /\ UNCHANGED <<ffmpeg_process, tried, monitor_should_stop, absence>>
    /\ UNCHANGED <<thrVars, repVars, viewVars, schoolVars, annVars, tokVars>>

(* ============================== report ================================= *)

\* _generate_final_report: the dictionary and the file, or None when building
\* the dictionary raises
_generate_final_report(attrs) ==
    IF "participant_analyzer" \in attrs /\ "get_participant_data" \notin ParticipantAnalyzer
    THEN [result |-> "None", file |-> FALSE]
    ELSE [result |-> "dict", file |-> TRUE]

GenerateFinalReport ==
    /\ pc = "report"
    /\ log' = Append(log, "report")
    /\ LET r == _generate_final_report(bot)
       IN reportResult' = r.result /\ reportFile' = r.file
    /\ pc' = "finally"
    /\ UNCHANGED <<duration, driver, loginRet, joinRet, startRet, monitorRet,
                   bot, stopCalls, quitCalls, propagated>>
    /\ UNCHANGED <<recVars, monVars, thrVars, viewVars, schoolVars, annVars, tokVars>>

(* ============================ MeetBot.stop ============================= *)

\* "if self.driver:" of WebDriverManager.quit
quit(d) == IF d = "open" THEN "quit" ELSE d

\* stop up to the joins: flags of the monitor, the recorder, the transcriber
\* and the emotion analyzer
StopBegin ==
    /\ pc = "finally"
    /\ stopCalls' = stopCalls + 1
    /\ log' = Append(log, "stop")
    /\ monitor_should_stop' = IF "monitor" \in bot THEN TRUE ELSE monitor_should_stop
    /\ IF "recorder" \in bot THEN StopRecording ELSE UNCHANGED <<srLog, procs>>
    /\ transcriber_should_stop' =
         IF "transcriber" \in bot THEN TRUE ELSE transcriber_should_stop
    /\ emotion_should_stop' =
         IF "emotion_analyzer" \in bot THEN TRUE ELSE emotion_should_stop
    /\ pc' = "join_transcript"
    /\ UNCHANGED <<duration, driver, loginRet, joinRet, startRet, monitorRet,
                   bot, quitCalls, propagated>>
    /\ UNCHANGED <<ffmpeg_process, tried, tpc>>
    /\ UNCHANGED <<clock, last_participant_check, participants_check_count,
                   firstNegAt, lastTwo, absence, stopReason>>
    /\ UNCHANGED <<repVars, viewVars, schoolVars, annVars, tokVars>>

\* transcript_thread.join(timeout=5): returns when the thread has ended or
\* when the five seconds are over, whichever comes first
JoinTranscript ==
    /\ pc = "join_transcript"
    /\ pc' = "join_emotion"
    /\ UNCHANGED <<log, duration, driver, loginRet, joinRet, startRet, monitorRet,
                   bot, stopCalls, quitCalls, propagated>>
    /\ UNCHANGED <<recVars, monVars, thrVars, repVars, viewVars, schoolVars, annVars, tokVars>>

\* emotion_thread.join(timeout=5)
JoinEmotion ==
    /\ pc = "join_emotion"
    /\ pc' = "quit"
    /\ UNCHANGED <<log, duration, driver, loginRet, joinRet, startRet, monitorRet,
                   bot, stopCalls, quitCalls, propagated>>
    /\ UNCHANGED <<recVars, monVars, thrVars, repVars, viewVars, schoolVars, annVars, tokVars>>

\* driver_manager.quit(), then stop and run return
Quit ==
    /\ pc = "quit"
    /\ quitCalls' = quitCalls + 1
    /\ log' = Append(log, "quit")
    /\ driver' = quit(driver)
    /\ pc' = "done"
    /\ UNCHANGED <<duration, loginRet, joinRet, startRet, monitorRet,
                   bot, stopCalls, propagated>>
    /\ UNCHANGED <<recVars, monVars, thrVars, repVars, viewVars, schoolVars, annVars, tokVars>>

(* ========================= background threads ========================== *)

\* the flag each loop tests in "while not self.should_stop"
should_stop(t) ==
    IF t = "EmotionThread" THEN emotion_should_stop ELSE transcriber_should_stop

\* mutant: "while True"
LoopContinues_m(t) == TRUE

\* the loop condition: does the loop run another iteration?
LoopContinues(t) == ~should_stop(t)

\* how an iteration of each loop can end: back at the loop test, or with an
\* exception no handler of the loop catches
BodyOutcomes(t) ==
    IF t = "TranscriptThread" THEN {"check", "done"} ELSE {"check"}

ThreadCheck(t) ==
    /\ tpc[t] = "check"
    /\ tpc' = [tpc EXCEPT ![t] = IF LoopContinues(t) THEN "body" ELSE "done"]
    /\ UNCHANGED <<botVars, recVars, monVars, repVars, viewVars, schoolVars, annVars, tokVars>>
    /\ UNCHANGED <<transcriber_should_stop, emotion_should_stop>>

ThreadBody(t) ==
    /\ tpc[t] = "body"
    /\ \E next \in BodyOutcomes(t) : tpc' = [tpc EXCEPT ![t] = next]
    /\ UNCHANGED <<botVars, recVars, monVars, repVars, viewVars, schoolVars, annVars, tokVars>>
    /\ UNCHANGED <<transcriber_should_stop, emotion_should_stop>>

capture_transcript == ThreadCheck("TranscriptThread") \/ ThreadBody("TranscriptThread")
analyze_emotions == ThreadCheck("EmotionThread") \/ ThreadBody("EmotionThread")
detect_active_speaker_loop ==
    ThreadCheck("ActiveUserThread") \/ ThreadBody("ActiveUserThread")

(* ========================= initial states ============================== *)

BotIdle ==
    /\ pc = "run" /\ log = <<>> /\ driver = "None"
    /\ loginRet = "none" /\ joinRet = "none" /\ startRet = "none" /\ monitorRet = "none"
    /\ bot = {} /\ stopCalls = 0 /\ quitCalls = 0 /\ propagated = FALSE
    /\ ffmpeg_process = "None" /\ procs = NoProcs /\ tried = <<>> /\ srLog = <<>>
    /\ clock = StartTime /\ last_participant_check = 0 /\ participants_check_count = 0
    /\ monitor_should_stop = FALSE /\ firstNegAt = 0 /\ absence = 0
    /\ lastTwo = <<>>
    /\ stopReason = "none"
    /\ tpc = [t \in Threads |-> "unstarted"]
    /\ transcriber_should_stop = FALSE /\ emotion_should_stop = FALSE
    /\ reportResult = "none" /\ reportFile = FALSE

ViewIdle == responses = <<>>

SchoolEmpty ==
    /\ years = <<>>
    /\ attendance = <<>>
    /\ lastOp = [op |-> "none"]
    /\ announcements = <<>>
    /\ annNow = 1
    /\ annResult = [op |-> "none", now |-> 0, ids |-> {}]

Tokens == {"t1", "t2"}
RefreshTokens == {"r1"}
Creds == [token : Tokens \cup {"None"}, refresh_token : RefreshTokens \cup {"None"},
          expired : BOOLEAN]
NoCreds == [token |-> "None", refresh_token |-> "None", expired |-> FALSE]
NoEnv == [GOOGLE_ACCESS_TOKEN |-> "None", GOOGLE_REFRESH_TOKEN |-> "None"]
NoTokenFile == [state |-> "absent", creds |-> NoCreds]

TokensIdle ==
    /\ token_json = NoTokenFile
    /\ env_file = NoEnv
    /\ environ = NoEnv
    /\ tokResult = [status |-> "none", branch |-> "none",
                    loaded |-> [some |-> FALSE, creds |-> NoCreds], creds |-> NoCreds]

\* a MeetBot constructed with a duration, before run
Init ==
    /\ duration \in 1..MaxDuration
    /\ BotIdle
    /\ ViewIdle
    /\ SchoolEmpty
    /\ TokensIdle

Main ==
    \/ Initialize \/ Login \/ Join \/ StartRecording \/ StartBackgroundServices
    \/ MonitorLoop \/ MonitorEnd \/ MonitorRaise \/ GenerateFinalReport
    \/ StopBegin \/ JoinTranscript \/ JoinEmotion \/ Quit

Next ==
    \/ Main
    \/ capture_transcript
    \/ analyze_emotions
    \/ detect_active_speaker_loop

Spec == Init /\ [][Next]_vars

\* the interpreter schedules every runnable thread again and again
LiveSpec ==
    /\ Spec
    /\ WF_vars(Main)
    /\ WF_vars(capture_transcript)
    /\ WF_vars(analyze_emotions)
    /\ WF_vars(detect_active_speaker_loop)

(* ========================== meeting_bot_view =========================== *)

Links == {"missing", "malformed", "https://meet.google.com/a", "https://meet.google.com/b"}
Filenames == {"missing", "rec"}
DurationInputs == {"missing", "abc", "30", "45"}
Requests == [meeting_link : Links, filename : Filenames, duration_minutes : DurationInputs]

\* MeetingBotSerializer: the fields that fail validation
errors(req) ==
    {f \in {"meeting_link"} : req.meeting_link \in {"missing", "malformed"}}
    \cup {f \in {"filename"} : req.filename = "missing"}
    \cup {f \in {"duration_minutes"} : req.duration_minutes = "abc"}

\* mutant: only meeting_link is validated
is_valid_m(req) == "meeting_link" \notin errors(req)

is_valid(req) == errors(req) = {}

\* IntegerField.to_internal_value on the inputs that are integers
to_internal_value(text) == IF text = "30" THEN 30 ELSE 45

\* "default=60" of duration_minutes
DefaultDuration == 60

\* MeetingBotSerializer.validated_data
validated_data(req) ==
    [meeting_link |-> req.meeting_link,
     filename |-> req.filename,
     duration_minutes |->
         IF req.duration_minutes = "missing" THEN DefaultDuration
         ELSE to_internal_value(req.duration_minutes)]

NoBot == [constructed |-> FALSE, ran |-> FALSE, link |-> "none", duration |-> 0,
          error_file |-> FALSE]

\* run_bot: MeetBot(..., duration=data['duration']) and bot.run(), or the
\* handler that writes bot_error_<time>.json
run_bot(data) ==
    IF "duration" \in DOMAIN data
    THEN [constructed |-> TRUE, ran |-> TRUE, link |-> data.meeting_link,
          duration |-> data["duration"], error_file |-> FALSE]
    ELSE [NoBot EXCEPT !.error_file = TRUE]

\* the response of meeting_bot_view to req; threadOk: Thread.start succeeded
meeting_bot_response(req, threadOk) ==
    IF ~is_valid(req)
    THEN [status |-> 400, body |-> "errors", errors |-> errors(req), request |-> req,
          dir_created |-> FALSE, thread_started |-> FALSE, bot |-> NoBot]
    ELSE IF threadOk
    THEN [status |-> 200, body |-> "success", errors |-> {}, request |-> req,
          dir_created |-> TRUE, thread_started |-> TRUE,
          bot |-> run_bot(validated_data(req))]
    ELSE [status |-> 500, body |-> "error", errors |-> {}, request |-> req,
          dir_created |-> TRUE, thread_started |-> FALSE, bot |-> NoBot]

meeting_bot_view ==
    /\ Len(responses) < MaxRequests
    /\ \E req \in Requests, threadOk \in BOOLEAN :
         responses' = Append(responses, meeting_bot_response(req, threadOk))
    /\ UNCHANGED <<botVars, recVars, monVars, thrVars, repVars, schoolVars, annVars, tokVars>>

ViewInit ==
    /\ duration = 1
    /\ BotIdle
    /\ ViewIdle
    /\ SchoolEmpty
    /\ TokensIdle

ViewNext == meeting_bot_view

ViewSpec == ViewInit /\ [][ViewNext]_vars

(* ============================ school viewsets ========================== *)

WriteMethods == {"POST", "PUT", "PATCH"}
\* request bodies: any subset of the fields, each with a value
Payloads(fields) == UNION {[S -> BOOLEAN] : S \in SUBSET fields}

\* the model fields of the two tables that the viewsets below read or write
YearFields == {"is_active", "is_deleted", "is_current"}
AttendanceFields == {"is_active", "is_deleted", "status"}

\* AcademicYearSerializer: fields = '__all__'
AcademicYearSerializer == YearFields
\* StudentAttendanceSerializer: fields = ['id', 'date', 'status', 'remarks']
StudentAttendanceSerializer == {"status"}

\* BaseModel defaults, is_current = False
NewYear == [is_active |-> TRUE, is_deleted |-> FALSE, is_current |-> FALSE]
NewAttendance == [is_active |-> TRUE, is_deleted |-> FALSE, status |-> FALSE]

\* queryset = Model.objects.filter(is_active=True, is_deleted=False)
queryset(table) ==
    {i \in 1..Len(table) : table[i].is_active /\ ~table[i].is_deleted}

\* SoftDeleteModelViewSet.get_serializer: the serializer's fields for a request
get_serializer(fields, method) ==
    IF method \in WriteMethods THEN fields \ {"is_active", "is_deleted"} ELSE fields

\* serializer.save(): the fields of the serializer present in the payload
save(row, payload, fields) ==
    [f \in DOMAIN row |->
        IF f \in fields /\ f \in DOMAIN payload
        THEN payload[f] ELSE row[f]]

\* mutant: destroy that only deactivates
destroy_m(row) == [row EXCEPT !.is_active = FALSE]

\* SoftDeleteModelViewSet.destroy on the instance
destroy(row) == [row EXCEPT !.is_active = FALSE, !.is_deleted = TRUE]

\* mutant: set_current without the update of the other years
set_current_m(table, pk) == [table EXCEPT ![pk].is_current = TRUE]

\* AcademicYearViewSet.set_current on the table
set_current(table, pk) ==
    [i \in 1..Len(table) |-> [table[i] EXCEPT !.is_current = (i = pk)]]

\* AcademicYearViewSet.current: filter(is_current=True).first(), 0 for the 404
current(table) ==
    LET cur == {i \in 1..Len(table) : table[i].is_current}
    IN IF cur = {} THEN 0 ELSE CHOOSE i \in cur : \A j \in cur : i <= j

YearCreate ==
    /\ Len(years) < MaxYears
    /\ \E payload \in Payloads(YearFields) :
         years' = Append(years,
                    save(NewYear, payload, get_serializer(AcademicYearSerializer, "POST")))
    /\ lastOp' = [op |-> "create", pk |-> Len(years) + 1, status |-> 201]
    /\ UNCHANGED <<attendance>>
    /\ UNCHANGED <<botVars, recVars, monVars, thrVars, repVars, viewVars, annVars, tokVars>>

YearUpdate ==
    /\ \E pk \in 1..Len(years), method \in {"PUT", "PATCH"},
          payload \in Payloads(YearFields) :
         IF pk \in queryset(years)
         THEN /\ years' = [years EXCEPT ![pk] =
                   save(@, payload, get_serializer(AcademicYearSerializer, method))]
              /\ lastOp' = [op |-> "update", pk |-> pk, status |-> 200]
         ELSE /\ years' = years
              /\ lastOp' = [op |-> "update", pk |-> pk, status |-> 404]
    /\ UNCHANGED <<attendance>>
    /\ UNCHANGED <<botVars, recVars, monVars, thrVars, repVars, viewVars, annVars, tokVars>>

YearDestroy ==
    /\ \E pk \in 1..Len(years) :
         IF pk \in queryset(years)
         THEN /\ years' = [years EXCEPT ![pk] = destroy(@)]
              /\ lastOp' = [op |-> "destroy", pk |-> pk, status |-> 204]
         ELSE /\ years' = years
              /\ lastOp' = [op |-> "destroy", pk |-> pk, status |-> 404]
    /\ UNCHANGED <<attendance>>
    /\ UNCHANGED <<botVars, recVars, monVars, thrVars, repVars, viewVars, annVars, tokVars>>

YearSetCurrent ==
    /\ \E pk \in 1..Len(years) :
         IF pk \in queryset(years)
         THEN /\ years' = set_current(years, pk)
              /\ lastOp' = [op |-> "set_current", pk |-> pk, status |-> 200]
         ELSE /\ years' = years
              /\ lastOp' = [op |-> "set_current", pk |-> pk, status |-> 404]
    /\ UNCHANGED <<attendance>>
    /\ UNCHANGED <<botVars, recVars, monVars, thrVars, repVars, viewVars, annVars, tokVars>>

AttendanceCreate ==
    /\ Len(attendance) < MaxAttendance
    /\ \E payload \in Payloads(AttendanceFields) :
         attendance' = Append(attendance,
             save(NewAttendance, payload, get_serializer(StudentAttendanceSerializer, "POST")))
    /\ lastOp' = [op |-> "attendance_create", pk |-> Len(attendance) + 1, status |-> 201]
    /\ UNCHANGED <<years>>
    /\ UNCHANGED <<botVars, recVars, monVars, thrVars, repVars, viewVars, annVars, tokVars>>

AttendanceDestroy ==
    /\ \E pk \in 1..Len(attendance) :
         IF pk \in queryset(attendance)
         THEN /\ attendance' = [attendance EXCEPT ![pk] = destroy(@)]
              /\ lastOp' = [op |-> "attendance_destroy", pk |-> pk, status |-> 204]
         ELSE /\ attendance' = attendance
              /\ lastOp' = [op |-> "attendance_destroy", pk |-> pk, status |-> 404]
    /\ UNCHANGED <<years>>
    /\ UNCHANGED <<botVars, recVars, monVars, thrVars, repVars, viewVars, annVars, tokVars>>

\* AttendanceViewSet.bulk_update with a one-item list: the row is fetched with
\* StudentAttendance.objects.get, deleted rows included
bulk_update ==
    /\ \E pk \in 1..Len(attendance), payload \in Payloads(AttendanceFields) :
         /\ attendance' = [attendance EXCEPT ![pk] =
                save(@, payload, get_serializer(StudentAttendanceSerializer, "POST"))]
         /\ lastOp' = [op |-> "bulk_update", pk |-> pk, status |-> 200]
    /\ UNCHANGED <<years>>
    /\ UNCHANGED <<botVars, recVars, monVars, thrVars, repVars, viewVars, annVars, tokVars>>

SchoolInit ==
    /\ duration = 1
    /\ BotIdle
    /\ ViewIdle
    /\ SchoolEmpty
    /\ TokensIdle

SchoolNext ==
    \/ YearCreate \/ YearUpdate \/ YearDestroy \/ YearSetCurrent
    \/ AttendanceCreate \/ AttendanceDestroy \/ bulk_update

SchoolSpec == SchoolInit /\ [][SchoolNext]_vars

(* ========================= AnnouncementViewSet ========================= *)

Dates == 1..MaxTime

\* queryset = Announcement.objects....filter(is_deleted=False)
announcement_queryset(table) == {i \in 1..Len(table) : ~table[i].is_deleted}

\* AnnouncementViewSet.get_queryset (the definition in force, the second one)
\* without query parameters: the announcements active at now
get_queryset(table, now) ==
    {i \in announcement_queryset(table) :
        /\ table[i].start_date <= now
        /\ (table[i].end_date = NoDate \/ table[i].end_date >= now)}

\* expired: get_queryset at now1, then filter(end_date__lt=now2)
expired(table, now1, now2) ==
    {i \in get_queryset(table, now1) :
        table[i].end_date # NoDate /\ table[i].end_date < now2}

\* upcoming: get_queryset at now1, then filter(start_date__gt=now2)
upcoming(table, now1, now2) ==
    {i \in get_queryset(table, now1) : table[i].start_date > now2}

\* create through AnnouncementSerializer (the definition in force, the second
\* one): start_date is the only date field, end_date stays NULL
AnnCreate ==
    /\ Len(announcements) < MaxAnnouncements
    /\ \E start \in Dates :
         announcements' = Append(announcements,
             [start_date |-> start, end_date |-> NoDate, is_deleted |-> FALSE])
    /\ annResult' = [op |-> "create", now |-> 0, ids |-> {}]
    /\ UNCHANGED <<annNow>>
    /\ UNCHANGED <<botVars, recVars, monVars, thrVars, repVars, viewVars, schoolVars, tokVars>>

\* seed.create_announcements: start_date = now, end_date = now + 10 days
create_announcements ==
    /\ Len(announcements) < MaxAnnouncements
    /\ annNow + SeedDays <= MaxClock
    /\ announcements' = Append(announcements,
           [start_date |-> annNow, end_date |-> annNow + SeedDays, is_deleted |-> FALSE])
    /\ annResult' = [op |-> "create", now |-> 0, ids |-> {}]
    /\ UNCHANGED <<annNow>>
    /\ UNCHANGED <<botVars, recVars, monVars, thrVars, repVars, viewVars, schoolVars, tokVars>>

\* destroy: get_object on get_queryset, is_deleted = True
AnnDestroy ==
    /\ \E pk \in get_queryset(announcements, annNow) :
         announcements' = [announcements EXCEPT ![pk].is_deleted = TRUE]
    /\ annResult' = [op |-> "destroy", now |-> 0, ids |-> {}]
    /\ UNCHANGED <<annNow>>
    /\ UNCHANGED <<botVars, recVars, monVars, thrVars, repVars, viewVars, schoolVars, tokVars>>

\* a day passes between requests
AnnTick ==
    /\ annNow < MaxClock
    /\ annNow' = annNow + 1
    /\ UNCHANGED <<announcements, annResult>>
    /\ UNCHANGED <<botVars, recVars, monVars, thrVars, repVars, viewVars, schoolVars, tokVars>>

\* GET expired; timezone.now() is read in get_queryset and again in the action
AnnExpired ==
    /\ \E now2 \in {annNow, annNow + 1} :
         /\ now2 <= MaxClock
         /\ annResult' = [op |-> "expired", now |-> now2,
                          ids |-> expired(announcements, annNow, now2)]
         /\ annNow' = now2
    /\ UNCHANGED <<announcements>>
    /\ UNCHANGED <<botVars, recVars, monVars, thrVars, repVars, viewVars, schoolVars, tokVars>>

\* GET upcoming
AnnUpcoming ==
    /\ \E now2 \in {annNow, annNow + 1} :
         /\ now2 <= MaxClock
         /\ annResult' = [op |-> "upcoming", now |-> now2,
                          ids |-> upcoming(announcements, annNow, now2)]
         /\ annNow' = now2
    /\ UNCHANGED <<announcements>>
    /\ UNCHANGED <<botVars, recVars, monVars, thrVars, repVars, viewVars, schoolVars, tokVars>>

AnnInit ==
    /\ duration = 1
    /\ BotIdle
    /\ ViewIdle
    /\ SchoolEmpty
    /\ TokensIdle

AnnNext == AnnCreate \/ create_announcements \/ AnnDestroy \/ AnnTick \/ AnnExpired \/ AnnUpcoming

AnnSpec == AnnInit /\ [][AnnNext]_vars

(* ============================ token_generate =========================== *)

\* google.oauth2.credentials.Credentials.valid
valid(c) == c.token # "None" /\ ~c.expired

TokenFiles ==
    {NoTokenFile, [state |-> "malformed", creds |-> NoCreds]}
    \cup [state : {"ok"}, creds : Creds]
EnvFiles == [GOOGLE_ACCESS_TOKEN : Tokens \cup {"None"},
             GOOGLE_REFRESH_TOKEN : RefreshTokens \cup {"None"}]

\* mutant: .env rewritten only when there is a refresh token
save_to_env_m(env, access_token, refresh_token) ==
    IF refresh_token # "None"
    THEN [env EXCEPT !.GOOGLE_ACCESS_TOKEN = access_token,
                     !.GOOGLE_REFRESH_TOKEN = refresh_token]
    ELSE env

\* save_to_env: the keys of .env after the rewrite
save_to_env(env, access_token, refresh_token) ==
    [env EXCEPT !.GOOGLE_ACCESS_TOKEN = access_token,
                !.GOOGLE_REFRESH_TOKEN = IF refresh_token # "None" THEN refresh_token ELSE @]

\* load_credentials: token.json if it exists, else the environment
load_credentials(file, env) ==
    IF file.state = "ok" THEN [some |-> TRUE, creds |-> file.creds]
    ELSE IF file.state = "malformed" THEN [some |-> FALSE, creds |-> NoCreds]
    ELSE IF env.GOOGLE_ACCESS_TOKEN # "None" /\ env.GOOGLE_REFRESH_TOKEN # "None"
    THEN [some |-> TRUE,
          creds |-> [token |-> env.GOOGLE_ACCESS_TOKEN,
                     refresh_token |-> env.GOOGLE_REFRESH_TOKEN, expired |-> FALSE]]
    ELSE [some |-> FALSE, creds |-> NoCreds]

\* the branch refresh_and_store_tokens takes for the loaded credentials
Branch(loaded) ==
    IF loaded.some /\ valid(loaded.creds) THEN "use"
    ELSE IF loaded.some /\ loaded.creds.expired /\ loaded.creds.refresh_token # "None"
    THEN "refresh"
    ELSE "flow"

\* ok: creds.refresh / run_local_server returned; newToken, newRefresh: what
\* the token endpoint issued
refresh_and_store_tokens ==
    /\ \E ok \in BOOLEAN, newToken \in Tokens, newRefresh \in RefreshTokens \cup {"None"} :
         LET loaded == load_credentials(token_json, environ)
             branch == Branch(loaded)
             creds == IF branch = "use" THEN loaded.creds
                      ELSE IF branch = "refresh"
                      THEN [loaded.creds EXCEPT
                               !.token = newToken, !.expired = FALSE,
                               !.refresh_token = IF newRefresh # "None" THEN newRefresh ELSE @]
                      ELSE [token |-> newToken, refresh_token |-> newRefresh,
                            expired |-> FALSE]
         IN IF branch = "use" \/ ok
            THEN /\ env_file' = save_to_env(
                                  save_to_env(env_file, creds.token, creds.refresh_token),
                                  creds.token, creds.refresh_token)
                 /\ token_json' = [state |-> "ok", creds |-> creds]
                 /\ tokResult' = [status |-> "returned", branch |-> branch,
                                  loaded |-> loaded, creds |-> creds]
            ELSE /\ tokResult' = [status |-> "raised", branch |-> branch,
                                  loaded |-> loaded, creds |-> NoCreds]
                 /\ UNCHANGED <<env_file, token_json>>
    /\ UNCHANGED <<environ>>
    /\ UNCHANGED <<botVars, recVars, monVars, thrVars, repVars, viewVars, schoolVars, annVars>>

\* the expiry of the stored access token passes
TokenExpires ==
    /\ token_json.state = "ok"
    /\ ~token_json.creds.expired
    /\ token_json' = [token_json EXCEPT !.creds.expired = TRUE]
    /\ UNCHANGED <<env_file, environ, tokResult>>
    /\ UNCHANGED <<botVars, recVars, monVars, thrVars, repVars, viewVars, schoolVars, annVars>>

\* any token.json, .env and environment the function can be started with
TokenInit ==
    /\ duration = 1
    /\ BotIdle
    /\ ViewIdle
    /\ SchoolEmpty
    /\ token_json \in TokenFiles
    /\ env_file \in EnvFiles
    /\ environ \in EnvFiles
    /\ tokResult = [status |-> "none", branch |-> "none",
                    loaded |-> [some |-> FALSE, creds |-> NoCreds], creds |-> NoCreds]

TokenNext == refresh_and_store_tokens \/ TokenExpires

TokenSpec == TokenInit /\ [][TokenNext]_vars

(* ============================= properties ============================== *)

Has(e) == \E i \in 1..Len(log) : log[i] = e
Pos(e) == CHOOSE i \in 1..Len(log) : log[i] = e
InSrLog(e) == \E i \in 1..Len(srLog) : srLog[i] = e
Running == {m \in Methods : procs[m] = "running"}
IsPrefix(a, b) == Len(a) <= Len(b) /\ SubSeq(b, 1, Len(a)) = a

\* C1: in every execution of MeetBot.run, start_recording is invoked only
\* after login and join both returned True, monitor only after
\* start_recording returned successfully, and stop after all of them.
C1_SessionOrder ==
    /\ Has("start_recording") =>
         /\ loginRet = "True" /\ joinRet = "True"
         /\ Pos("login") < Pos("join") /\ Pos("join") < Pos("start_recording")
    /\ Has("monitor") =>
         /\ startRet = "True"
         /\ Pos("start_recording") < Pos("monitor")
    /\ Has("stop") =>
         \A e \in {"login", "join", "start_recording", "monitor"} :
            \A i \in 1..Len(log) : log[i] = e => i < Pos("stop")
    /\ pc = "done" => Has("stop")

\* a complete session: the monitor returned and run went through stop
C1_Witness == pc = "done" /\ Has("monitor") /\ monitorRet = "ok"

\* C2: whatever step of run fails, run calls stop exactly once before it
\* returns, stop reaches driver_manager.quit(), and no exception leaves run.
C2_StopOnce ==
    /\ stopCalls <= 1
    /\ quitCalls <= stopCalls
    /\ ~propagated
    /\ pc = "done" => stopCalls = 1 /\ quitCalls = 1

\* run returned after start_recording raised
C2_Witness == pc = "done" /\ startRet = "raise" /\ quitCalls = 1

\* C3: stop_recording escalates from 'q' to terminate() to kill(): 'q' is
\* attempted first, terminate() follows only a timed-out 15 s wait, kill()
\* (outside the exception handler) only a timed-out 5 s wait after
\* terminate(), and a process that exited on 'q' is never terminated or killed.
C3_Escalation ==
    /\ [](srLog # <<>> =>
           /\ srLog[1] \in {"q", "q_failed"}
           /\ srLog[2] \in {"wait15_ok", "wait15_timeout"}
           /\ \A i \in 1..Len(srLog) :
                /\ srLog[i] = "terminate" => srLog[i - 1] = "wait15_timeout"
                /\ srLog[i] = "kill" =>
                     srLog[i - 1] = "wait5_timeout" /\ srLog[i - 2] = "terminate"
           /\ InSrLog("wait15_ok") => ~InSrLog("terminate") /\ ~InSrLog("kill"))
    /\ [][\A m \in Methods : procs[m] = "quit" => procs'[m] = "quit"]_vars

\* a stop_recording that went all the way to kill()
C3_Witness == InSrLog("kill") /\ procs[ffmpeg_process] = "killed"

\* C4: whenever monitor sets should_stop for lack of participants, at least
\* 60 seconds have passed since the first of the consecutive negative checks.
C4_OneMinuteAbsence == stopReason = "no_participants" => absence >= OneMinute

\* C6: start_recording tries the methods in the order of
\* _get_recording_methods and returns True at the first whose process is
\* still running, with exactly that process running; it raises only when
\* every method failed, and then none of its processes is running.
C6_FirstWorkingMethod ==
    /\ pc = "background" =>
         /\ startRet = "True"
         /\ ffmpeg_process # "None"
         /\ Running = {ffmpeg_process}
         /\ tried # <<>> /\ tried[Len(tried)] = ffmpeg_process
         /\ \E n \in 0..MaxDevices : IsPrefix(tried, _get_recording_methods(n))
         /\ \A m \in Methods \ {ffmpeg_process} : procs[m] \in {"unstarted", "exited"}
    /\ (pc = "finally" /\ startRet = "raise") =>
         /\ Running = {}
         /\ \E n \in 0..MaxDevices : tried = _get_recording_methods(n)

\* the third method started after the first two failed
C6_Witness == pc = "background" /\ Len(tried) = 3 /\ ffmpeg_process = "video_only"

\* C7: once stop has set should_stop on the transcriber and the emotion
\* analyzer, each of the three background loops eventually exits.
C7_LoopsExit ==
    (transcriber_should_stop /\ emotion_should_stop)
        ~> (\A t \in Threads : tpc[t] \in {"unstarted", "done"})

\* the three loops ran and have exited after the flags were set
C7_Witness ==
    /\ transcriber_should_stop /\ emotion_should_stop
    /\ \A t \in Threads : tpc[t] = "done"

\* C8: when monitor returns without raising, _generate_final_report writes
\* the report file and returns the report dictionary.
C8_ReportProduced ==
    (monitorRet = "ok" /\ Has("report")) => (reportResult = "dict" /\ reportFile)

\* C5: a 200 "success" answer of meeting_bot_view means a MeetBot was
\* constructed for the request's meeting_link with the validated duration
\* and its run was invoked.
C5_SuccessMeansBotRan ==
    \A i \in 1..Len(responses) :
        (responses[i].status = 200 /\ responses[i].body = "success") =>
            /\ responses[i].bot.constructed
            /\ responses[i].bot.ran
            /\ responses[i].bot.link = responses[i].request.meeting_link
            /\ responses[i].bot.duration =
                   validated_data(responses[i].request).duration_minutes

Deleted(table) == {i \in 1..Len(table) : table[i].is_deleted}

\* C9: destroy never removes the row; it sets is_active = False and
\* is_deleted = True, the object is then outside the viewset's list and
\* retrieve, and no later POST/PUT/PATCH through the viewset undoes it.
C9_SoftDelete ==
    /\ [](/\ lastOp.op = "destroy" /\ lastOp.status = 204 =>
               /\ lastOp.pk \in 1..Len(years)
               /\ years[lastOp.pk].is_deleted /\ ~years[lastOp.pk].is_active
          /\ lastOp.op = "attendance_destroy" /\ lastOp.status = 204 =>
               /\ lastOp.pk \in 1..Len(attendance)
               /\ attendance[lastOp.pk].is_deleted /\ ~attendance[lastOp.pk].is_active
          /\ Deleted(years) \cap queryset(years) = {}
          /\ Deleted(attendance) \cap queryset(attendance) = {})
    /\ [][/\ Len(years') >= Len(years)
          /\ Len(attendance') >= Len(attendance)
          /\ \A i \in Deleted(years) : years'[i].is_deleted /\ ~years'[i].is_active
          /\ \A i \in Deleted(attendance) :
                attendance'[i].is_deleted /\ ~attendance'[i].is_active]_vars

\* a POST write reached a soft-deleted row and left it deleted
C9_Witness ==
    /\ lastOp.op = "bulk_update"
    /\ attendance[lastOp.pk].is_deleted /\ ~attendance[lastOp.pk].is_active
    /\ Deleted(years) # {}

\* C10: after set_current for year Y, Y is current and no other year is, and
\* current returns Y.
C10_OneCurrentYear ==
    (lastOp.op = "set_current" /\ lastOp.status = 200) =>
        /\ \A i \in 1..Len(years) : years[i].is_current <=> i = lastOp.pk
        /\ current(years) = lastOp.pk

\* set_current on the last of several years
C10_Witness ==
    /\ lastOp.op = "set_current" /\ lastOp.status = 200
    /\ Len(years) >= 2 /\ lastOp.pk = Len(years)

\* C13: a request that fails MeetingBotSerializer validation is answered
\* with HTTP 400 and the serializer errors; no thread is started, no MeetBot
\* is created and no recording directory is created for it.
C13_InvalidRequestRejected ==
    \A i \in 1..Len(responses) :
        errors(responses[i].request) # {} =>
            /\ responses[i].status = 400
            /\ responses[i].errors = errors(responses[i].request)
            /\ ~responses[i].thread_started
            /\ ~responses[i].bot.constructed
            /\ ~responses[i].dir_created

\* a request with a good link but no filename was rejected
C13_Witness ==
    \E i \in 1..Len(responses) :
        /\ responses[i].request.meeting_link = "https://meet.google.com/a"
        /\ responses[i].request.filename = "missing"
        /\ responses[i].status = 400

\* C16: when stop_recording returns for a recorder whose process was started,
\* the process is not running (it exited, exited after terminate(), or was
\* sent kill()); with no process stop_recording does nothing.
C16_ProcessStopped ==
    /\ srLog # <<>> =>
         /\ ffmpeg_process # "None"
         /\ procs[ffmpeg_process] \in {"exited", "quit", "terminated", "killed"}
    /\ (Has("stop") /\ ffmpeg_process = "None") =>
         /\ srLog = <<>>
         /\ procs = NoProcs

\* stop_recording ended a process with terminate()
C16_Witness ==
    /\ srLog # <<>>
    /\ InSrLog("wait5_ok")
    /\ procs[ffmpeg_process] = "terminated"

\* the threads whose loops call the driver
DriverThreads == {"TranscriptThread", "ActiveUserThread"}

\* C17: stop quits the driver only after every thread that calls the driver
\* has exited.
C17_NoThreadAfterQuit ==
    driver = "quit" => \A t \in DriverThreads : tpc[t] \in {"unstarted", "done"}

\* C15: monitor ends the recording for lack of participants only when the
\* two most recent checks both returned False; a check that returns True
\* resets the negative-check counter to 0.
C15_TwoConsecutiveNegatives ==
    /\ (pc = "monitor_end" /\ stopReason = "no_participants") =>
         lastTwo = <<FALSE, FALSE>>
    /\ (pc = "monitor" /\ lastTwo # <<>> /\ lastTwo[Len(lastTwo)]) =>
         participants_check_count = 0

\* the monitor has just decided to stop for lack of participants
C15_Witness ==
    /\ pc = "monitor_end" /\ stopReason = "no_participants"
    /\ monitor_should_stop
    /\ participants_check_count = ChecksToStop

\* C11: expired returns every non-deleted announcement whose end_date is
\* earlier than now, and only those.
C11_ExpiredReturned ==
    annResult.op = "expired" =>
        annResult.ids = {i \in 1..Len(announcements) :
                            /\ ~announcements[i].is_deleted
                            /\ announcements[i].end_date # NoDate
                            /\ announcements[i].end_date < annResult.now}

\* C12: upcoming returns every non-deleted announcement whose start_date is
\* later than now, and only those.
C12_UpcomingReturned ==
    annResult.op = "upcoming" =>
        annResult.ids = {i \in 1..Len(announcements) :
                            /\ ~announcements[i].is_deleted
                            /\ announcements[i].start_date > annResult.now}

\* C14: refresh_and_store_tokens uses loaded valid credentials as they are,
\* refreshes expired ones that have a refresh token, runs the OAuth flow
\* otherwise, and has written the returned access token to token.json and
\* to .env when it returns.
C14_TokensPersisted ==
    tokResult.status = "returned" =>
        /\ valid(tokResult.loaded.creds) /\ tokResult.loaded.some =>
              tokResult.branch = "use" /\ tokResult.creds = tokResult.loaded.creds
        /\ (/\ tokResult.loaded.some /\ ~valid(tokResult.loaded.creds)
            /\ tokResult.loaded.creds.expired
            /\ tokResult.loaded.creds.refresh_token # "None") =>
              tokResult.branch = "refresh"
        /\ (\/ ~tokResult.loaded.some
            \/ (/\ ~valid(tokResult.loaded.creds)
                /\ ~(/\ tokResult.loaded.creds.expired
                     /\ tokResult.loaded.creds.refresh_token # "None"))) =>
              tokResult.branch = "flow"
        /\ valid(tokResult.creds)
        /\ token_json.state = "ok"
        /\ token_json.creds.token = tokResult.creds.token
        /\ env_file.GOOGLE_ACCESS_TOKEN = tokResult.creds.token

\* the OAuth flow returned credentials without a refresh token and they
\* replaced another access token in .env
C14_Witness ==
    /\ tokResult.status = "returned" /\ tokResult.branch = "flow"
    /\ tokResult.creds.refresh_token = "None"
    /\ env_file.GOOGLE_ACCESS_TOKEN = tokResult.creds.token
    /\ environ.GOOGLE_ACCESS_TOKEN # tokResult.creds.token

====
